---- MODULE Spec2Model ----
(***************************************************************************)
(* Model of tiled/catalogs/files.py: Catalog.from_directory (the initial  *)
(* scan, run on the caller's thread), the filesystem watcher thread        *)
(* (_watch / _process_changes) and the filesystem they both look at.       *)
(*                                                                         *)
(* The directory tree is a root that holds the files c.csv (readable) and *)
(* u.mystery (no MIME type), may hold a.csv, and may hold an entry named   *)
(* d, which is either a file or a subdirectory that may hold b.csv.  Paths *)
(* are tuples of path segments relative to the root, as the keys of the    *)
(* index are.  The Watcher's polling primitive (watchgod's AllWatcher)     *)
(* compares the mtimes of the files of two walks of the tree and reports   *)
(* files only, as a set.                                                   *)
(***************************************************************************)
EXTENDS Integers, Sequences, FiniteSets, TLC

VARIABLES
    fs,                          \* disk: file path -> mtime, or minus the
                                 \* last mtime once the file is deleted
    dirD,                        \* disk: d is a directory
    nOps,                        \* history: number of filesystem operations
    scanAdd,                     \* history: the first filesystem operation
                                 \* created this file while the scan ran
    gone,                        \* history: indexed files deleted after the scan
    mpc,                         \* position of the thread in from_directory
    walk_subdirs,                \* os.walk: subdirectories still to descend into
    user_readers,                \* from_directory(readers_by_mimetype=...)
    mimetypes_by_file_ext,       \* from_directory(mimetypes_by_file_ext=...)
    index,                       \* path-key -> Node Map (name -> entry)
    initial_scan_complete,       \* bool(initial_scan_complete)
    watcher_thread_kill_switch,  \* len(watcher_thread_kill_switch)
    wpc,                         \* position of the watcher thread in _watch
    files,                       \* Watcher.files: snapshot of the last check()
    changes,                     \* _watch: changes returned by the last check()
    queued_changes,              \* _watch: queued_changes
    todo,                        \* _process_changes: events still to iterate
    exc,                         \* exception that ended the watcher thread
    checkAfterScan,              \* history: last check() ran after the scan signal
    observed,                    \* history: events in the order check() gave
                                 \* them, up to the first poll that applies
    appliedNow,                  \* history: events applied in the current poll
    drains,                      \* history: times the backlog was processed
    applyPhase,                  \* history: 0 until a poll applies events, 1
                                 \* during the first poll that does, 2 after it
    rootExists,                  \* disk: os.path.isdir(directory)
    error_if_missing,            \* from_directory(error_if_missing=...)
    threads,                     \* number of watcher threads ever started
    catalogs,                    \* the Catalog objects: the objects their
                                 \* attributes refer to
    calls,                       \* history: calls of shutdown_watcher
    derived_calls,               \* history: those made on a derived catalog
    detached,                    \* len() of the kill switches that are not the
                                 \* list the watcher thread was given
    cache,                       \* CachingMap of the root: key -> number of the
                                 \* object cached for it, 0 for none
    made,                        \* history: key -> times its factory was invoked
    got,                         \* history: key -> the objects lookups returned
    keysWhen,                    \* history: key -> the names in the Node Map
                                 \* when its object was cached
    hits,                        \* history: key -> a lookup was answered from
                                 \* the cache after the Node Map had changed
    answered,                    \* history: the keys callers were given an
                                 \* object for after the watcher had died
    iterating,                   \* a caller is in the middle of enumerating
                                 \* the Node Map of the root
    instances,                   \* the SerializableLock objects made so far
    _locks,                      \* SerializableLock._locks: token -> Lock
    nlocks,                      \* number of threading.Lock objects made
    nuuids,                      \* number of uuid4 tokens drawn
    holder,                      \* Lock -> the thread that holds it
    via,                         \* thread -> the instance it acquired through
    pickled                      \* the tokens of the pickles that exist

vars == <<fs, dirD, nOps, scanAdd, gone, mpc, walk_subdirs, user_readers,
          mimetypes_by_file_ext, index, initial_scan_complete,
          watcher_thread_kill_switch, wpc, files, changes, queued_changes, todo,
          exc, checkAfterScan, observed, appliedNow, drains, applyPhase,
          rootExists, error_if_missing, threads, catalogs, calls,
          derived_calls, detached, cache, made, got, keysWhen,
          hits, answered, iterating, instances, _locks, nlocks, nuuids, holder, via,
          pickled>>

fsVars == <<fs, dirD, nOps, scanAdd, gone>>
mainVars == <<mpc, walk_subdirs, user_readers, mimetypes_by_file_ext,
              initial_scan_complete>>
watchVars == <<wpc, files, changes, queued_changes, todo, exc>>
histVars == <<checkAfterScan, observed, appliedNow, drains, applyPhase>>
paramVars == <<rootExists, error_if_missing>>
handleVars == <<catalogs, calls, derived_calls, detached>>
lookupVars == <<cache, made, got, keysWhen, hits, answered>>
lockVars == <<instances, _locks, nlocks, nuuids, holder, via, pickled>>
restVars == <<paramVars, threads, handleVars, lookupVars, iterating, lockVars>>

(***************************************************************************)
(* Bounds.                                                                 *)
(***************************************************************************)
MaxFsOps == 3
MaxDrains == 2
MaxShutdowns == 2
MaxCatalogs == 2

(***************************************************************************)
(* Paths and names.                                                        *)
(***************************************************************************)
RootKey == <<>>
DKey == <<"d">>
RootFileNames == {"a.csv", "c.csv", "u.mystery", "d"}
DFileNames == {"b.csv"}
Paths == {<<n>> : n \in RootFileNames} \cup {<<"d", n>> : n \in DFileNames}

\* Path.name
Name(p) == p[Len(p)]
\* path.relative_to(directory).parent.parts
ParentParts(p) == SubSeq(p, 1, Len(p) - 1)

\* "".join(path.suffixes)
Suffixes(name) ==
    CASE name = "a.csv" -> ".csv"
      [] name = "b.csv" -> ".csv"
      [] name = "c.csv" -> ".csv"
      [] name = "u.mystery" -> ".mystery"
      [] OTHER -> ""

\* mimetypes.guess_type(path)[0]
GuessType(name) == IF Suffixes(name) = ".csv" THEN "text/csv" ELSE "None"

\* dict helpers
EmptyMap == [x \in {} |-> x]
Put(m, k, v) == [x \in (DOMAIN m) \cup {k} |-> IF x = k THEN v ELSE m[x]]
Pop(m, k) == [x \in (DOMAIN m) \ {k} |-> m[x]]

RECURSIVE Orders(_)
\* every order in which a set of events can be iterated
Orders(S) == IF S = {} THEN {<<>>}
             ELSE UNION {{<<x>> \o s : s \in Orders(S \ {x})} : x \in S}

IsPrefix(s, t) == Len(s) <= Len(t) /\ SubSeq(t, 1, Len(s)) = s

(***************************************************************************)
(* The reader registry and _reader_factory_for_file.                       *)
(***************************************************************************)
DEFAULT_READERS_BY_MIMETYPE ==
    [m \in {"image/tiff", "text/csv", "xlsx"} |->
        CASE m = "image/tiff" -> "TiffReader"
          [] m = "text/csv" -> "DataFrameAdapter.read_csv"
          [] OTHER -> "ExcelReader.from_file"]

\* collections.ChainMap(readers_by_mimetype or {}, DEFAULT_READERS_BY_MIMETYPE)
ChainMapGet(user, mimetype) ==
    IF mimetype \in DOMAIN user THEN user[mimetype]
    ELSE IF mimetype \in DOMAIN DEFAULT_READERS_BY_MIMETYPE
         THEN DEFAULT_READERS_BY_MIMETYPE[mimetype]
         ELSE "KeyError"

\* The body of _reader_factory_for_file: the functools.partial it returns, or
\* the NoReaderAvailable it raises.
ReaderFactoryBody(readers, by_ext, path) ==
    LET ext == Suffixes(Name(path))
        mimetype == IF ext \in DOMAIN by_ext THEN by_ext[ext]
                    ELSE GuessType(Name(path))
    IN  IF mimetype = "None" THEN [raised |-> "NoReaderAvailable"]
        ELSE IF ChainMapGet(readers, mimetype) = "KeyError"
             THEN [raised |-> "NoReaderAvailable"]
             ELSE [raised |-> "none",
                   entry |-> [kind |-> "file",
                              reader |-> ChainMapGet(readers, mimetype),
                              path |-> path]]

\* A call of _reader_factory_for_file with the positional arguments args: the
\* function takes exactly three, any other number raises TypeError.
_reader_factory_for_file(args) ==
    IF Len(args) # 3 THEN [raised |-> "TypeError"]
    ELSE ReaderFactoryBody(args[1], args[2], args[3])

\* The arguments of the call in from_directory.
ScanCallArgs(path) == <<user_readers, mimetypes_by_file_ext, path>>
\* The arguments of the call in _process_changes.
WatchCallArgs(path) == <<user_readers, path>>

(***************************************************************************)
(* The disk.  An mtime is compared only with an earlier mtime of the same  *)
(* file, so each file counts its own writes; a deleted file keeps its last *)
(* mtime, negated, so that a file created again gets a later one.          *)
(***************************************************************************)
IsFile(p) == fs[p] > 0
\* Path.is_dir()
IsDir(p) == p = DKey /\ dirD
ParentExists(p) == Len(p) = 1 \/ dirD
NextMtime(p) == (IF fs[p] > 0 THEN fs[p] ELSE 0 - fs[p]) + 1
\* the files a walk of the tree sees, with their mtimes
Snapshot == [p \in Paths |-> IF fs[p] > 0 THEN fs[p] ELSE 0]
\* c.csv belongs to the tree from_directory is given and is never touched
MutablePaths == Paths \ {<<"c.csv">>}

\* files the environment modifies in place
ModifiedPaths == {<<"a.csv">>}
Indexed(p) ==
    ParentParts(p) \in DOMAIN index /\ Name(p) \in DOMAIN index[ParentParts(p)]

FsEnabled == rootExists /\ mpc \notin {"start", "ValueError"} /\ nOps < MaxFsOps

CreateFile(p) ==
    /\ FsEnabled
    /\ ~IsFile(p) /\ ~IsDir(p) /\ ParentExists(p)
    /\ fs' = [fs EXCEPT ![p] = NextMtime(p)]
    /\ nOps' = nOps + 1
    /\ scanAdd' = IF nOps = 0 /\ ~initial_scan_complete THEN p ELSE scanAdd
    /\ gone' = [gone EXCEPT ![p] = 0]
    /\ UNCHANGED <<dirD, mainVars, index, watcher_thread_kill_switch, watchVars,
                   histVars>>
    /\ UNCHANGED restVars

DeleteFile(p) ==
    /\ FsEnabled
    /\ IsFile(p)
    /\ fs' = [fs EXCEPT ![p] = 0 - fs[p]]
    /\ nOps' = nOps + 1
    /\ gone' = IF initial_scan_complete /\ Indexed(p)
               THEN [gone EXCEPT ![p] = 1] ELSE gone
    /\ UNCHANGED <<dirD, scanAdd, mainVars, index, watcher_thread_kill_switch, watchVars,
                   histVars>>
    /\ UNCHANGED restVars

ModifyFile(p) ==
    /\ FsEnabled
    /\ IsFile(p)
    /\ fs' = [fs EXCEPT ![p] = NextMtime(p)]
    /\ nOps' = nOps + 1
    /\ UNCHANGED <<dirD, scanAdd, gone, mainVars, index,
                   watcher_thread_kill_switch, watchVars, histVars>>
    /\ UNCHANGED restVars

MakeDir ==
    /\ FsEnabled
    /\ ~dirD /\ ~IsFile(DKey)
    /\ dirD' = TRUE
    /\ nOps' = nOps + 1
    /\ UNCHANGED <<fs, scanAdd, gone, mainVars, index,
                   watcher_thread_kill_switch, watchVars, histVars>>
    /\ UNCHANGED restVars

RemoveDir ==
    /\ FsEnabled
    /\ dirD /\ \A n \in DFileNames : ~IsFile(<<"d", n>>)
    /\ dirD' = FALSE
    /\ nOps' = nOps + 1
    /\ UNCHANGED <<fs, scanAdd, gone, mainVars, index,
                   watcher_thread_kill_switch, watchVars, histVars>>
    /\ UNCHANGED restVars

(***************************************************************************)
(* Catalog.from_directory: the caller's thread.                            *)
(***************************************************************************)
DirEntry == [kind |-> "dir", key |-> DKey]

RECURSIVE ScanFiles(_, _, _)
\* for filename in files: index[parts][filename] = _reader_factory_for_file(...)
\* with NoReaderAvailable swallowed
ScanFiles(map, parts, names) ==
    IF names = {} THEN map
    ELSE LET n == CHOOSE x \in names : TRUE
             r == _reader_factory_for_file(ScanCallArgs(Append(parts, n)))
         IN  ScanFiles(IF r.raised = "none" THEN Put(map, n, r.entry) ELSE map,
                       parts, names \ {n})

\* a scan without the except clause: NoReaderAvailable leaves the loop too
ScanRaisesOnSkip(parts, names) ==
    \E n \in names :
        _reader_factory_for_file(ScanCallArgs(Append(parts, n))).raised # "none"

\* except NoReaderAvailable: pass; any other exception leaves the loop over
\* the files
ScanRaises(parts, names) ==
    \E n \in names :
        _reader_factory_for_file(ScanCallArgs(Append(parts, n))).raised
            \notin {"none", "NoReaderAvailable"}

\* a from_directory that does not look whether the directory exists
DirectoryMissingUnchecked == FALSE

\* if error_if_missing: if not os.path.isdir(directory):
DirectoryMissing == error_if_missing /\ ~rootExists

\* raise ValueError(f"{directory} is not a directory")
RaiseNotADirectory ==
    /\ mpc = "start"
    /\ DirectoryMissing
    /\ mpc' = "ValueError"
    /\ UNCHANGED <<fsVars, walk_subdirs, user_readers, mimetypes_by_file_ext,
                   index, initial_scan_complete, watcher_thread_kill_switch,
                   watchVars, histVars, restVars>>

\* index = {(): {}}; ...; watcher_thread.start()
StartWatcherThread ==
    /\ mpc = "start"
    /\ ~DirectoryMissing
    /\ index' = [k \in {RootKey} |-> EmptyMap]
    /\ mpc' = "walk_root"
    /\ wpc' = "new"
    /\ threads' = threads + 1
    /\ UNCHANGED <<fsVars, walk_subdirs, user_readers, mimetypes_by_file_ext,
                   initial_scan_complete, watcher_thread_kill_switch,
                   files, changes, queued_changes, todo, exc, histVars,
                   paramVars, handleVars, lookupVars, iterating, lockVars>>

\* os.walk yields the root: its subdirectories and files as listed now
WalkRoot ==
    /\ mpc = "walk_root"
    /\ LET subdirectories == IF dirD THEN <<"d">> ELSE <<>>
           names == {n \in RootFileNames : IsFile(<<n>>)}
           withDirs == IF dirD THEN Put(index[RootKey], "d", DirEntry)
                       ELSE index[RootKey]
           keyed == IF dirD THEN Put(index, DKey, EmptyMap) ELSE index
       IN  /\ index' = Put(keyed, RootKey, ScanFiles(withDirs, RootKey, names))
           /\ walk_subdirs' = subdirectories
           /\ mpc' = IF ScanRaises(RootKey, names) THEN "raised"
                     ELSE IF subdirectories # <<>> THEN "walk_d" ELSE "signal"
    /\ UNCHANGED <<fsVars, user_readers, mimetypes_by_file_ext,
                   initial_scan_complete, watcher_thread_kill_switch, watchVars,
                   histVars>>
    /\ UNCHANGED restVars

\* os.walk descends into d: a directory that is gone by now is skipped
WalkD ==
    /\ mpc = "walk_d"
    /\ LET parts == <<Head(walk_subdirs)>>
           names == IF dirD THEN {n \in DFileNames : IsFile(<<"d", n>>)} ELSE {}
       IN  /\ index' = Put(index, parts, ScanFiles(index[parts], parts, names))
           /\ mpc' = IF ScanRaises(parts, names) THEN "raised" ELSE "signal"
    /\ walk_subdirs' = Tail(walk_subdirs)
    /\ UNCHANGED <<fsVars, user_readers, mimetypes_by_file_ext,
                   initial_scan_complete, watcher_thread_kill_switch, watchVars,
                   histVars>>
    /\ UNCHANGED restVars

\* a from_directory that signals before it walks the tree
SignalScanCompleteEarly ==
    /\ mpc = "walk_root"
    /\ ~initial_scan_complete
    /\ initial_scan_complete' = TRUE
    /\ UNCHANGED <<fsVars, mpc, walk_subdirs, user_readers,
                   mimetypes_by_file_ext, index, watcher_thread_kill_switch,
                   watchVars, histVars, restVars>>

\* initial_scan_complete.append(object())
SignalScanComplete ==
    /\ mpc = "signal"
    /\ initial_scan_complete' = TRUE
    /\ mpc' = "ret"
    /\ UNCHANGED <<fsVars, walk_subdirs, user_readers, mimetypes_by_file_ext,
                   index, watcher_thread_kill_switch, watchVars, histVars>>
    /\ UNCHANGED restVars

\* The objects from_directory creates and the watcher thread is given: the
\* index, the ChainMap of readers and the kill switch.  An object is known by
\* a number; these are number 0, a copy of one is another number.
Shared == 0
\* Catalog.__init__: the attributes _index, _readers_by_mimetype and
\* _watcher_thread_kill_switch are the arguments themselves
NewCatalog(index_, readers_by_mimetype_, watcher_thread_kill_switch_) ==
    [index |-> index_,
     readers_by_mimetype |-> readers_by_mimetype_,
     watcher_thread_kill_switch |-> watcher_thread_kill_switch_]

\* return cls(mapping, index=index, ...)
ReturnCatalog ==
    /\ mpc = "ret"
    /\ mpc' = "done"
    /\ catalogs' = <<NewCatalog(Shared, Shared, Shared)>>
    /\ UNCHANGED <<fsVars, walk_subdirs, user_readers, mimetypes_by_file_ext,
                   index, initial_scan_complete, watcher_thread_kill_switch,
                   watchVars, histVars, paramVars, threads, calls,
                   derived_calls, detached, lookupVars, iterating,
                   lockVars>>

\* a derivation that hands the new catalog a copy of the kill switch
VariationKwargsCopied(self) ==
    [index |-> self.index,
     readers_by_mimetype |-> self.readers_by_mimetype,
     watcher_thread_kill_switch |-> self.watcher_thread_kill_switch + 1]

\* the keyword arguments Catalog.new_variation adds to the caller's
VariationKwargs(self) ==
    [index |-> self.index,
     readers_by_mimetype |-> self.readers_by_mimetype,
     watcher_thread_kill_switch |-> self.watcher_thread_kill_switch]

\* CatalogInMemory.new_variation: a catalog of the same class, constructed
\* with the keyword arguments it is given
InMemoryNewVariation(kwargs) ==
    NewCatalog(kwargs.index, kwargs.readers_by_mimetype,
               kwargs.watcher_thread_kill_switch)

\* Catalog.new_variation
new_variation(c) ==
    /\ mpc = "done"
    /\ Len(catalogs) < MaxCatalogs
    /\ catalogs' = Append(catalogs, InMemoryNewVariation(VariationKwargs(catalogs[c])))
    /\ UNCHANGED <<fsVars, mainVars, index, watcher_thread_kill_switch,
                   watchVars, histVars, paramVars, threads, calls,
                   derived_calls, detached, lookupVars, iterating,
                   lockVars>>

\* a shutdown_watcher that flips the switch: a second call clears it
shutdown_watcher_toggle(c) ==
    /\ mpc = "done"
    /\ calls < MaxShutdowns
    /\ calls' = calls + 1
    /\ derived_calls' = IF c = 1 THEN derived_calls ELSE derived_calls + 1
    /\ watcher_thread_kill_switch' = 1 - watcher_thread_kill_switch
    /\ UNCHANGED <<fsVars, mainVars, index, watchVars, histVars, paramVars,
                   threads, catalogs, detached, lookupVars, iterating,
                   lockVars>>

\* Catalog.shutdown_watcher on the catalog c:
\* self._watcher_thread_kill_switch.append(object())
shutdown_watcher(c) ==
    /\ mpc = "done"
    /\ calls < MaxShutdowns
    /\ calls' = calls + 1
    /\ derived_calls' = IF c = 1 THEN derived_calls ELSE derived_calls + 1
    /\ IF catalogs[c].watcher_thread_kill_switch = Shared
       THEN /\ watcher_thread_kill_switch' = watcher_thread_kill_switch + 1
            /\ UNCHANGED detached
       ELSE /\ detached' = detached + 1
            /\ UNCHANGED watcher_thread_kill_switch
    /\ UNCHANGED <<fsVars, mainVars, index, watchVars, histVars, paramVars,
                   threads, catalogs, lookupVars, iterating, lockVars>>

(***************************************************************************)
(* The callers of the catalog: lookups by name in the root, through the    *)
(* CachingMap that from_directory wraps around index[()].                  *)
(***************************************************************************)
\* the names callers look up
LookupKeys == {"a.csv", "c.csv"}

\* a map that invokes the factory on every lookup and keeps nothing
CachingMapGetUncached(cached, invoked, mapping, key) ==
    IF key \notin DOMAIN mapping
    THEN [raised |-> "KeyError", cache |-> cached, made |-> invoked]
    ELSE [raised |-> "none", value |-> invoked[key] + 1, cache |-> cached,
          made |-> [invoked EXCEPT ![key] = @ + 1]]

\* CachingMap.__getitem__: a key that is not in the mapping is not found; a
\* cached value is returned; otherwise the factory is invoked, once, and the
\* object it makes is cached.  The object is known by the number of the
\* invocation that made it.
CachingMapGet(cached, invoked, mapping, key) ==
    IF key \notin DOMAIN mapping
    THEN [raised |-> "KeyError", cache |-> cached, made |-> invoked]
    ELSE IF cached[key] # 0
    THEN [raised |-> "none", value |-> cached[key], cache |-> cached,
          made |-> invoked]
    ELSE [raised |-> "none", value |-> invoked[key] + 1,
          cache |-> [cached EXCEPT ![key] = invoked[key] + 1],
          made |-> [invoked EXCEPT ![key] = @ + 1]]

\* catalog[key] on the catalog from_directory returned
Lookup(key) ==
    /\ mpc = "done"
    /\ LET r == CachingMapGet(cache, made, index[RootKey], key)
       IN  /\ cache' = r.cache
           /\ made' = r.made
           /\ got' = IF r.raised = "none"
                     THEN [got EXCEPT ![key] = @ \cup {r.value}] ELSE got
           /\ keysWhen' = IF r.raised = "none" /\ cache[key] = 0
                          THEN [keysWhen EXCEPT ![key] = DOMAIN index[RootKey]]
                          ELSE keysWhen
           /\ hits' = IF /\ r.raised = "none" /\ cache[key] # 0
                         /\ DOMAIN index[RootKey] # keysWhen[key]
                      THEN [hits EXCEPT ![key] = TRUE] ELSE hits
           /\ answered' = IF r.raised = "none" /\ wpc = "dead"
                          THEN answered \cup {key} ELSE answered
    /\ UNCHANGED <<fsVars, mainVars, index, watcher_thread_kill_switch,
                   watchVars, histVars, paramVars, threads, handleVars,
                   iterating, lockVars>>

\* iter(catalog): a caller starts to enumerate the Node Map of the root
IterStart ==
    /\ mpc = "done"
    /\ ~iterating
    /\ iterating' = TRUE
    /\ UNCHANGED <<fsVars, mainVars, index, watcher_thread_kill_switch,
                   watchVars, histVars, paramVars, threads, handleVars,
                   lookupVars, lockVars>>

\* the enumeration comes to its end
IterEnd ==
    /\ iterating
    /\ iterating' = FALSE
    /\ UNCHANGED <<fsVars, mainVars, index, watcher_thread_kill_switch,
                   watchVars, histVars, paramVars, threads, handleVars,
                   lookupVars, lockVars>>

(***************************************************************************)
(* tiled/client/utils.py: SerializableLock.  A threading.Lock is known by  *)
(* the number of its creation; a token is a string, "None" standing for no *)
(* token; instances are made by one thread at a time, as the class asks.   *)
(***************************************************************************)
MaxInstances == 3
Threads == {"t1", "t2"}
\* the tokens callers pass: none, the empty string, two names
TokenArgs == {"None", "", "x", "y"}
\* str(uuid.uuid4()): a token nobody else has
Uuid(n) == <<"uuid-1", "uuid-2", "uuid-3", "uuid-4">>[n]
\* bool(token)
Truthy(token) == token \notin {"None", ""}
\* the instances that have not been garbage-collected
Alive == {i \in 1..Len(instances) : instances[i].alive}

\* SerializableLock.__init__(token)
InitLock(arg) ==
    LET token == IF Truthy(arg) THEN arg ELSE Uuid(nuuids + 1)
    IN  /\ nuuids' = IF Truthy(arg) THEN nuuids ELSE nuuids + 1
        /\ IF token \in DOMAIN _locks
           THEN /\ instances' = Append(instances,
                                  [arg |-> arg, token |-> token,
                                   lock |-> _locks[token], alive |-> TRUE])
                /\ UNCHANGED <<_locks, nlocks, holder>>
           ELSE /\ instances' = Append(instances,
                                  [arg |-> arg, token |-> token,
                                   lock |-> nlocks + 1, alive |-> TRUE])
                /\ nlocks' = nlocks + 1
                /\ holder' = Put(holder, nlocks + 1, "none")
                /\ _locks' = Put(_locks, token, nlocks + 1)

\* everything but the locks
catalogVars ==
    <<fsVars, mainVars, index, watcher_thread_kill_switch, watchVars, histVars,
      paramVars, threads, handleVars, lookupVars, iterating>>

\* SerializableLock(token)
CreateLock(arg) ==
    /\ Len(instances) < MaxInstances
    /\ InitLock(arg)
    /\ UNCHANGED <<via, pickled, catalogVars>>

\* pickle.dumps(lock): __getstate__ returns the token
PickleLock(i) ==
    /\ i \in Alive
    /\ instances[i].token \notin pickled
    /\ pickled' = pickled \cup {instances[i].token}
    /\ UNCHANGED <<instances, _locks, nlocks, nuuids, holder, via, catalogVars>>

\* pickle.loads(bytes): __setstate__(token) calls __init__(token)
UnpickleLock(token) ==
    /\ token \in pickled
    /\ Len(instances) < MaxInstances
    /\ InitLock(token)
    /\ UNCHANGED <<via, pickled, catalogVars>>

\* The last reference to an instance no thread holds the lock through goes
\* away; a Lock no instance refers to leaves the WeakValueDictionary.
DropLock(i) ==
    /\ i \in Alive
    /\ \A t \in Threads : via[t] # i
    /\ instances' = [instances EXCEPT ![i].alive = FALSE]
    /\ _locks' = [k \in {x \in DOMAIN _locks :
                           \E j \in Alive \ {i} : instances[j].lock = _locks[x]}
                   |-> _locks[k]]
    /\ UNCHANGED <<nlocks, nuuids, holder, via, pickled, catalogVars>>

\* lock.acquire() by the thread t on the instance i: blocks while the Lock
\* is held
acquire(t, i) ==
    /\ i \in Alive
    /\ via[t] = 0
    /\ holder[instances[i].lock] = "none"
    /\ holder' = [holder EXCEPT ![instances[i].lock] = t]
    /\ via' = [via EXCEPT ![t] = i]
    /\ UNCHANGED <<instances, _locks, nlocks, nuuids, pickled, catalogVars>>

\* lock.release() by the thread that holds it
release(t) ==
    /\ via[t] # 0
    /\ holder' = [holder EXCEPT ![instances[via[t]].lock] = "none"]
    /\ via' = [via EXCEPT ![t] = 0]
    /\ UNCHANGED <<instances, _locks, nlocks, nuuids, pickled, catalogVars>>

(***************************************************************************)
(* The watcher thread: _watch and _process_changes.                        *)
(***************************************************************************)
Event(kind, p) == [kind |-> kind, path |-> p]

\* AllWatcher.check(): the differences between the last snapshot and the disk
Diff(old, new) ==
    {Event("added", p) : p \in {q \in Paths : old[q] = 0 /\ new[q] # 0}}
    \cup {Event("modified", p) :
            p \in {q \in Paths : old[q] # 0 /\ new[q] # 0 /\ old[q] # new[q]}}
    \cup {Event("deleted", p) : p \in {q \in Paths : old[q] # 0 /\ new[q] = 0}}

\* watcher = Watcher(directory); queued_changes = []
WatcherInit ==
    /\ wpc = "new"
    /\ files' = Snapshot
    /\ queued_changes' = <<>>
    /\ wpc' = "loop"
    /\ UNCHANGED <<fsVars, mainVars, index, watcher_thread_kill_switch, changes,
                   todo, exc, histVars>>
    /\ UNCHANGED restVars

\* a loop that never looks at the switch
SwitchIsSetIgnored == FALSE

\* bool(watcher_thread_kill_switch)
SwitchIsSet == watcher_thread_kill_switch > 0

\* while not watcher_thread_kill_switch: the switch is set, the loop ends
WatcherStop ==
    /\ wpc = "loop"
    /\ SwitchIsSet
    /\ wpc' = "stopped"
    /\ UNCHANGED <<fsVars, mainVars, index, watcher_thread_kill_switch, files,
                   changes, queued_changes, todo, exc, histVars>>
    /\ UNCHANGED restVars

\* while not watcher_thread_kill_switch: changes = watcher.check()
WatcherCheck ==
    /\ wpc = "loop"
    /\ ~SwitchIsSet
    /\ drains < MaxDrains
    /\ \E order \in Orders(Diff(files, Snapshot)) :
          /\ changes' = order
          /\ observed' = IF applyPhase = 0 THEN observed \o order ELSE observed
    /\ files' = Snapshot
    /\ checkAfterScan' = initial_scan_complete
    /\ appliedNow' = <<>>
    /\ applyPhase' = IF applyPhase = 0 THEN 0 ELSE 2
    /\ gone' = [p \in Paths |-> IF gone[p] = 1 THEN 2 ELSE gone[p]]
    /\ wpc' = "checked"
    /\ UNCHANGED <<fs, dirD, nOps, scanAdd, mainVars, index,
                   watcher_thread_kill_switch, queued_changes, todo, exc, drains>>
    /\ UNCHANGED restVars

\* a watcher that does not wait for the scan
ScanIsCompleteIgnored == TRUE

\* if initial_scan_complete:
ScanIsComplete == initial_scan_complete

\* a watcher that processes the changes just collected before the backlog
WorkListSwapped(queued, collected) == collected \o queued

\* The events one poll processes once the scan is complete: the backlog
\* first, then the changes just collected.
WorkList(queued, collected) == queued \o collected

\* if initial_scan_complete: ... else: queued_changes.extend(changes)
WatcherDispatch ==
    /\ wpc = "checked"
    /\ IF ScanIsComplete
       THEN /\ todo' = WorkList(queued_changes, changes)
            /\ drains' = IF queued_changes # <<>> THEN drains + 1 ELSE drains
            /\ applyPhase' = IF applyPhase = 0 THEN 1 ELSE applyPhase
            /\ wpc' = "apply"
            /\ UNCHANGED queued_changes
       ELSE /\ queued_changes' = queued_changes \o changes
            /\ wpc' = "loop"
            /\ UNCHANGED <<todo, drains, applyPhase>>
    /\ UNCHANGED <<fsVars, mainVars, index, watcher_thread_kill_switch, files,
                   changes, exc, checkAfterScan, observed, appliedNow>>
    /\ UNCHANGED restVars

\* a watcher that does not look whether the path is a directory
PathIsDirUnchecked(path) == FALSE

\* if path.is_dir():
PathIsDir(path) == IsDir(path)

\* a watcher that drops the entry of a rewritten file from its Node Map
ChangeModifiedInvalidating(idx, path) ==
    IF ParentParts(path) \in DOMAIN idx
       /\ Name(path) \in DOMAIN idx[ParentParts(path)]
    THEN Put(idx, ParentParts(path), Pop(idx[ParentParts(path)], Name(path)))
    ELSE idx

\* elif kind == Change.modified: pass
ChangeModified(idx, path) == idx

\* One iteration of the loop of _process_changes on the event e: the
\* exception it raises, if any, and the index it leaves.
ProcessChange(e, idx) ==
    LET path == e.path
        parent_parts == ParentParts(path)
    IN  IF PathIsDir(path) THEN [raised |-> "NotImplementedError", index |-> idx]
        ELSE IF e.kind = "added"
        THEN LET r == _reader_factory_for_file(WatchCallArgs(path))
             IN  IF r.raised = "NoReaderAvailable"
                 THEN [raised |-> "none", index |-> idx]
                 ELSE IF r.raised # "none"
                 THEN [raised |-> r.raised, index |-> idx]
                 ELSE IF parent_parts \notin DOMAIN idx
                 THEN [raised |-> "KeyError", index |-> idx]
                 ELSE [raised |-> "none",
                       index |-> Put(idx, parent_parts,
                                     Put(idx[parent_parts], Name(path), r.entry))]
        ELSE IF e.kind = "deleted"
        THEN IF parent_parts \notin DOMAIN idx
                \/ Name(path) \notin DOMAIN idx[parent_parts]
             THEN [raised |-> "KeyError", index |-> idx]
             ELSE [raised |-> "none",
                   index |-> Put(idx, parent_parts,
                                 Pop(idx[parent_parts], Name(path)))]
        ELSE [raised |-> "none", index |-> ChangeModified(idx, path)]

\* a watcher that catches what _process_changes raises on an event, drops
\* the event and goes on to the next
WatcherApplyResuming ==
    /\ wpc = "apply"
    /\ todo # <<>>
    /\ LET r == ProcessChange(Head(todo), index)
       IN  /\ index' = r.index
           /\ todo' = Tail(todo)
           /\ appliedNow' = IF r.raised # "none" THEN appliedNow
                             ELSE Append(appliedNow, Head(todo))
           /\ UNCHANGED <<wpc, exc>>
    /\ UNCHANGED <<fsVars, mainVars, watcher_thread_kill_switch, files, changes,
                   queued_changes, checkAfterScan, observed, drains, applyPhase>>
    /\ UNCHANGED restVars

\* for kind, entry in changes: the next event; an exception ends the thread
WatcherApply ==
    /\ wpc = "apply"
    /\ todo # <<>>
    /\ LET r == ProcessChange(Head(todo), index)
       IN  IF r.raised # "none"
           THEN /\ wpc' = "dead"
                /\ exc' = r.raised
                /\ UNCHANGED <<index, todo, appliedNow>>
           ELSE /\ index' = r.index
                /\ todo' = Tail(todo)
                /\ appliedNow' = Append(appliedNow, Head(todo))
                /\ UNCHANGED <<wpc, exc>>
    /\ UNCHANGED <<fsVars, mainVars, watcher_thread_kill_switch, files, changes,
                   queued_changes, checkAfterScan, observed, drains, applyPhase>>
    /\ UNCHANGED restVars

\* both calls of _process_changes returned; time.sleep(poll_interval)
WatcherSleep ==
    /\ wpc = "apply"
    /\ todo = <<>>
    /\ wpc' = "loop"
    /\ UNCHANGED <<fsVars, mainVars, index, watcher_thread_kill_switch, files,
                   changes, queued_changes, todo, exc, histVars>>
    /\ UNCHANGED restVars

(***************************************************************************)
(* The specification.                                                      *)
(***************************************************************************)
\* The trees from_directory may be given: c.csv and u.mystery in the root,
\* a.csv or not, d absent, a file or a directory, b.csv only inside the
\* directory d.
InitialDisks ==
    {f \in [Paths -> {0, 1}] :
        /\ f[<<"c.csv">>] = 1
        /\ f[<<"u.mystery">>] = 1
        /\ f[<<"d", "b.csv">>] = 1 => f[DKey] = 0}

\* The state in which from_directory is called with a tree among disks, a
\* readers_by_mimetype among registries and a mimetypes_by_file_ext among
\* extensions.
Boot(disks, registries, extensions) ==
    /\ fs \in disks
    /\ dirD \in BOOLEAN
    /\ fs[DKey] = 1 => ~dirD
    /\ fs[<<"d", "b.csv">>] = 1 => dirD
    /\ nOps = 0
    /\ scanAdd = RootKey
    /\ gone = [p \in Paths |-> 0]
    /\ mpc = "start"
    /\ walk_subdirs = <<>>
    /\ user_readers \in registries
    /\ mimetypes_by_file_ext \in extensions
    /\ index = EmptyMap
    /\ initial_scan_complete = FALSE
    /\ watcher_thread_kill_switch = 0
    /\ wpc = "unstarted"
    /\ files = [p \in Paths |-> 0]
    /\ changes = <<>>
    /\ queued_changes = <<>>
    /\ todo = <<>>
    /\ exc = "none"
    /\ checkAfterScan = FALSE
    /\ observed = <<>>
    /\ appliedNow = <<>>
    /\ drains = 0
    /\ applyPhase = 0
    /\ threads = 0
    /\ catalogs = <<>>
    /\ calls = 0
    /\ derived_calls = 0
    /\ detached = 0
    /\ cache = [k \in LookupKeys |-> 0]
    /\ made = [k \in LookupKeys |-> 0]
    /\ got = [k \in LookupKeys |-> {}]
    /\ keysWhen = [k \in LookupKeys |-> {}]
    /\ hits = [k \in LookupKeys |-> FALSE]
    /\ answered = {}
    /\ iterating = FALSE
    /\ instances = <<>>
    /\ _locks = EmptyMap
    /\ nlocks = 0
    /\ nuuids = 0
    /\ holder = EmptyMap
    /\ via = [t \in Threads |-> 0]
    /\ pickled = {}

Init ==
    /\ Boot(InitialDisks, {EmptyMap}, {EmptyMap})
    /\ rootExists = TRUE
    /\ error_if_missing = TRUE

\* the steps of the program: from_directory, the watcher thread, and the
\* caller that shuts the watcher down
Program ==
    \/ StartWatcherThread
    \/ WalkRoot
    \/ WalkD
    \/ SignalScanComplete
    \/ ReturnCatalog
    \/ \E c \in 1..Len(catalogs) : shutdown_watcher(c)
    \/ WatcherInit
    \/ WatcherStop
    \/ WatcherCheck
    \/ WatcherDispatch
    \/ WatcherApply
    \/ WatcherSleep

Next ==
    \/ \E p \in MutablePaths : CreateFile(p)
    \/ \E p \in MutablePaths : DeleteFile(p)
    \/ \E p \in ModifiedPaths : ModifyFile(p)
    \/ MakeDir
    \/ RemoveDir
    \/ Program

Spec == Init /\ [][Next]_vars

(***************************************************************************)
(* from_directory called with readers and MIME types of the caller's own.  *)
(***************************************************************************)
\* readers_by_mimetype: none, or a reader for text/csv in place of the default
UserRegistries == {EmptyMap, [m \in {"text/csv"} |-> "UserCsvReader"]}
\* mimetypes_by_file_ext: none, or a MIME type for .mystery, which no reader
\* is registered for
UserExtensions == {EmptyMap, [e \in {".mystery"} |-> "application/x-mystery"]}
\* a.csv, c.csv and u.mystery in the root, b.csv in the directory d
RegistryDisks ==
    {f \in InitialDisks :
        f[<<"a.csv">>] = 1 /\ f[DKey] = 0 /\ f[<<"d", "b.csv">>] = 1}

InitReaders ==
    /\ Boot(RegistryDisks, UserRegistries, UserExtensions)
    /\ dirD = (fs[<<"d", "b.csv">>] = 1)
    /\ rootExists = TRUE
    /\ error_if_missing = TRUE

SpecReaders == InitReaders /\ [][Next]_vars

(***************************************************************************)
(* Vocabulary of the properties.                                           *)
(***************************************************************************)
\* the poll whose check() ran after the scan signalled completion has ended
PollOver == checkAfterScan /\ wpc \in {"loop", "dead"}

\* _reader_factory_for_file, called as the scanner calls it, returns a factory
Readable(p) ==
    ReaderFactoryBody(user_readers, mimetypes_by_file_ext, p).raised = "none"

FileEntries(key) == {n \in DOMAIN index[key] : index[key][n].kind = "file"}
ReadableOnDisk(key) ==
    {Name(p) : p \in {q \in Paths : ParentParts(q) = key /\ IsFile(q) /\ Readable(q)}}

\* _process_changes takes the next event off its list, or raises on it
ApplyStep == wpc = "apply" /\ todo # <<>> /\ (wpc' = "dead" \/ todo' = Tail(todo))
\* ... and goes on to the event after it
GoesOn == wpc' = "apply" /\ todo' = Tail(todo) /\ exc' = "none"

\* d and b.csv play no part: the root is the only directory there ever was
OnlyRoot ==
    /\ ~dirD /\ DKey \notin DOMAIN index
    /\ fs[DKey] = 0 /\ fs[<<"d", "b.csv">>] = 0

(***************************************************************************)
(* C1. Race-free scan/watch interleaving: the root holds N readable files  *)
(* and one new readable file (a.csv) is created in it, as the only         *)
(* filesystem operation, between the start of the watcher thread and the   *)
(* scan's completion signal; once the scan is complete and a poll that     *)
(* started after it has ended, the root Node Map holds exactly the N+1     *)
(* files.                                                                  *)
(***************************************************************************)
C1_RaceFreeScan ==
    (nOps = 1 /\ scanAdd = <<"a.csv">> /\ PollOver)
        => /\ FileEntries(RootKey) = ReadableOnDisk(RootKey)
           /\ Cardinality(FileEntries(RootKey))
                = Cardinality(ReadableOnDisk(RootKey) \ {"a.csv"}) + 1

(***************************************************************************)
(* C2. Eventual consistency: after file additions and deletions in the     *)
(* root, once a poll of the running watcher that saw the disk as it is now *)
(* has ended, every Node Map holds an entry for exactly the readable files *)
(* present in its directory.                                               *)
(***************************************************************************)
C2_EventualConsistency ==
    (PollOver /\ watcher_thread_kill_switch = 0 /\ files = Snapshot /\ OnlyRoot)
        => \A key \in DOMAIN index : FileEntries(key) = ReadableOnDisk(key)

(***************************************************************************)
(* C3. The backlog queued during the scan is applied exactly once: no poll *)
(* after the one that drained it applies an event of it again.             *)
(***************************************************************************)
C3_BacklogAppliedOnce == ~(drains >= 2 /\ appliedNow # <<>>)

(***************************************************************************)
(* C4. While the scan has not signalled completion the watcher applies     *)
(* nothing: every event check() has returned sits in the queue (or in the  *)
(* batch about to be queued), and by the time the watcher applies its      *)
(* first event the scanner has made its last write to the index.           *)
(***************************************************************************)
C4_QueueWhileScanning ==
    /\ ~initial_scan_complete =>
          /\ wpc \notin {"apply", "dead"}
          /\ applyPhase = 0 /\ appliedNow = <<>>
          /\ observed = queued_changes \o (IF wpc = "checked" THEN changes ELSE <<>>)
    /\ applyPhase # 0 => mpc \in {"ret", "done"}

C4_Witness ==
    /\ ~initial_scan_complete /\ wpc = "loop" /\ mpc = "signal"
    /\ queued_changes # <<>>
    /\ \E e \in {queued_changes[i] : i \in DOMAIN queued_changes} :
          e.kind = "deleted" /\ Indexed(e.path)

(***************************************************************************)
(* C5. Events are applied in the order the watcher observed them: the      *)
(* backlog holds the events in the order check() returned them, and a poll *)
(* applies the backlog in that order, then the batch it collected, in the  *)
(* order check() returned it.                                              *)
(***************************************************************************)
C5_AppliedInOrder ==
    /\ applyPhase = 0 =>
          observed = queued_changes \o (IF wpc = "checked" THEN changes ELSE <<>>)
    /\ applyPhase = 1 => IsPrefix(appliedNow, observed)
    /\ IsPrefix(appliedNow, queued_changes \o changes)

C5_Witness ==
    /\ applyPhase = 1 /\ wpc = "loop"
    /\ queued_changes # <<>> /\ changes # <<>>
    /\ Len(appliedNow) >= 3
    /\ appliedNow = queued_changes \o changes

(***************************************************************************)
(* C6. Deletion application: a file that is indexed and is deleted on disk *)
(* after the scan completed is, once the watcher's next poll has ended, no *)
(* longer in the Node Map of its directory.                                *)
(***************************************************************************)
C6_DeletionApplied ==
    wpc \in {"loop", "dead"} => \A p \in Paths : gone[p] = 2 => ~Indexed(p)

(***************************************************************************)
(* C7. Added application: applying Added(path) for a file leaves an entry  *)
(* under the file's name in the Node Map of its parent when the reader     *)
(* resolves as in the scanner, leaves the index unchanged when it does     *)
(* not, and in both cases the watcher goes on to the next event.           *)
(***************************************************************************)
C7_AddedApplied ==
    [][(/\ ApplyStep
        /\ Head(todo).kind = "added"
        /\ ~IsDir(Head(todo).path)
        /\ ParentParts(Head(todo).path) \in DOMAIN index)
          => /\ GoesOn
             /\ IF Readable(Head(todo).path)
                THEN index' = Put(index, ParentParts(Head(todo).path),
                                  Put(index[ParentParts(Head(todo).path)],
                                      Name(Head(todo).path),
                                      ReaderFactoryBody(user_readers,
                                          mimetypes_by_file_ext,
                                          Head(todo).path).entry))
                ELSE index' = index]_vars

C9_DeleteAbsentIsNoOp ==
    [][(/\ ApplyStep
        /\ Head(todo).kind = "deleted"
        /\ ~IsDir(Head(todo).path)
        /\ ~Indexed(Head(todo).path))
          => (GoesOn /\ index' = index)]_vars

(***************************************************************************)
(* C10. Structural invariant: once from_directory has returned, every      *)
(* path-key of the index but the root has an entry under its last segment  *)
(* in the Node Map of its parent, and every Subdirectory entry names a     *)
(* path-key of the index.                                                  *)
(***************************************************************************)
C10_Structure ==
    mpc = "done" =>
        /\ \A key \in DOMAIN index \ {RootKey} :
              /\ ParentParts(key) \in DOMAIN index
              /\ Name(key) \in DOMAIN index[ParentParts(key)]
        /\ \A key \in DOMAIN index : \A n \in DOMAIN index[key] :
              index[key][n].kind = "dir" => index[key][n].key \in DOMAIN index

(***************************************************************************)
(* from_directory called on a directory that may not exist, and the        *)
(* callers of the catalog it returns.                                      *)
(***************************************************************************)
\* nothing at the place of the root
NoDisk == [p \in Paths |-> 0]
\* a.csv, c.csv and u.mystery in the root, and an empty directory d
CatalogDisks ==
    {f \in InitialDisks :
        f[<<"a.csv">>] = 1 /\ f[DKey] = 0 /\ f[<<"d", "b.csv">>] = 0}

InitCatalog ==
    \/ /\ Boot(CatalogDisks, {EmptyMap}, {EmptyMap})
       /\ dirD = TRUE
       /\ rootExists = TRUE
       /\ error_if_missing = TRUE
    \/ /\ Boot({NoDisk}, {EmptyMap}, {EmptyMap})
       /\ dirD = FALSE
       /\ rootExists = FALSE
       /\ error_if_missing \in BOOLEAN

\* the tree changes in one place: a.csv is deleted, rewritten, created again
NextCatalog ==
    \/ \E p \in ModifiedPaths : CreateFile(p)
    \/ \E p \in ModifiedPaths : DeleteFile(p)
    \/ \E p \in ModifiedPaths : ModifyFile(p)
    \/ Program
    \/ RaiseNotADirectory
    \/ \E c \in 1..Len(catalogs) : new_variation(c)

SpecCatalog == InitCatalog /\ [][NextCatalog]_vars

(***************************************************************************)
(* The watcher thread under a fair scheduler: whenever its next statement  *)
(* can run, it eventually does.                                            *)
(***************************************************************************)
InitStop ==
    /\ Boot(CatalogDisks, {EmptyMap}, {EmptyMap})
    /\ dirD = TRUE
    /\ rootExists = TRUE
    /\ error_if_missing = TRUE

WatcherStep ==
    \/ WatcherInit
    \/ WatcherStop
    \/ WatcherCheck
    \/ WatcherDispatch
    \/ WatcherApply
    \/ WatcherSleep

\* the tree changes in one place: a.csv is deleted, rewritten, created again
NextStop ==
    \/ \E p \in ModifiedPaths : CreateFile(p)
    \/ \E p \in ModifiedPaths : DeleteFile(p)
    \/ \E p \in ModifiedPaths : ModifyFile(p)
    \/ Program

SpecStop == InitStop /\ [][NextStop]_vars /\ WF_vars(WatcherStep)

(***************************************************************************)
(* Callers look names up in the catalog while the watcher runs.            *)
(***************************************************************************)
NextLookup ==
    \/ \E p \in ModifiedPaths : CreateFile(p)
    \/ \E p \in ModifiedPaths : DeleteFile(p)
    \/ \E p \in ModifiedPaths : ModifyFile(p)
    \/ Program
    \/ \E key \in LookupKeys : Lookup(key)

SpecLookup == InitStop /\ [][NextLookup]_vars

(***************************************************************************)
(* Callers enumerate the catalog while the watcher runs.                   *)
(***************************************************************************)
NextIterate ==
    \/ \E p \in ModifiedPaths : CreateFile(p)
    \/ \E p \in ModifiedPaths : DeleteFile(p)
    \/ \E p \in ModifiedPaths : ModifyFile(p)
    \/ Program
    \/ IterStart
    \/ IterEnd

SpecIterate == InitStop /\ [][NextIterate]_vars

(***************************************************************************)
(* Callers look a.csv up while files come and go in the root and d, a file *)
(* at first, is deleted and made a directory.                              *)
(***************************************************************************)
FailureDisks ==
    {f \in InitialDisks : f[<<"a.csv">>] = 1 /\ f[<<"d", "b.csv">>] = 0}

InitFailure ==
    /\ Boot(FailureDisks, {EmptyMap}, {EmptyMap})
    /\ rootExists = TRUE
    /\ error_if_missing = TRUE

FailurePaths == {<<"a.csv">>, <<"u.mystery">>, DKey}

NextFailure ==
    \/ \E p \in FailurePaths : CreateFile(p)
    \/ \E p \in FailurePaths : DeleteFile(p)
    \/ \E p \in ModifiedPaths : ModifyFile(p)
    \/ MakeDir
    \/ Program
    \/ Lookup("a.csv")

SpecFailure == InitFailure /\ [][NextFailure]_vars

(***************************************************************************)
(* Threads that make, pickle, unpickle, drop, acquire and release          *)
(* SerializableLocks; no catalog is involved.                              *)
(***************************************************************************)
NextLock ==
    \/ \E arg \in TokenArgs : CreateLock(arg)
    \/ \E i \in 1..Len(instances) : PickleLock(i)
    \/ \E token \in pickled : UnpickleLock(token)
    \/ \E i \in 1..Len(instances) : DropLock(i)
    \/ \E t \in Threads : \E i \in 1..Len(instances) : acquire(t, i)
    \/ \E t \in Threads : release(t)

SpecLock == InitStop /\ [][NextLock]_vars

(***************************************************************************)
(* C11: a file the scan finds no reader for, because its MIME type is not  *)
(* resolved or because no reader is registered for the MIME type, gets no  *)
(* entry and does not abort the scan: from_directory raises nothing, and   *)
(* once the scan of an undisturbed tree is over every readable file of     *)
(* every directory and the subdirectory itself are in the Index, and no    *)
(* unreadable file is.                                                     *)
(***************************************************************************)
ScanOver == mpc \in {"signal", "ret", "done"}
C11_UnsupportedSkipped ==
    /\ mpc # "raised"
    /\ (ScanOver /\ nOps = 0) =>
          /\ DOMAIN index = {RootKey} \cup (IF dirD THEN {DKey} ELSE {})
          /\ \A key \in DOMAIN index : FileEntries(key) = ReadableOnDisk(key)
          /\ dirD => ("d" \in DOMAIN index[RootKey]
                        /\ index[RootKey]["d"] = DirEntry)
          /\ \A p \in Paths : (IsFile(p) /\ ~Readable(p)) => ~Indexed(p)

\* the scan is over, it met a file without a MIME type or one whose MIME
\* type has no reader, and the files around it and the subdirectory are in
C11_Witness ==
    /\ mpc = "done" /\ nOps = 0
    /\ IsFile(<<"u.mystery">>) /\ ~Indexed(<<"u.mystery">>)
    /\ ".mystery" \in DOMAIN mimetypes_by_file_ext
    /\ Indexed(<<"a.csv">>) /\ Indexed(<<"c.csv">>)
    /\ dirD /\ Indexed(<<"d", "b.csv">>)

(***************************************************************************)
(* C12: when the root directory does not exist and error_if_missing is     *)
(* true, from_directory raises before anything is started: no watcher      *)
(* thread is ever created, no Index is built and no catalog is returned;   *)
(* with error_if_missing false the call does not raise for the missing     *)
(* directory.                                                              *)
(***************************************************************************)
C12_FailsFast ==
    /\ (~rootExists /\ error_if_missing) =>
          /\ mpc \in {"start", "ValueError"}
          /\ threads = 0 /\ wpc = "unstarted"
          /\ index = EmptyMap
    /\ mpc = "ValueError" => (~rootExists /\ error_if_missing)
    /\ (~rootExists /\ ~error_if_missing) => mpc \notin {"ValueError", "raised"}

\* the call on the missing directory has raised
C12_Witness == ~rootExists /\ error_if_missing /\ mpc = "ValueError"

(***************************************************************************)
(* C13: cooperative stop.  Once shutdown_watcher has set the kill switch   *)
(* the watcher loop eventually exits; from the first time the loop is at   *)
(* its test with the switch set it starts no new poll, so that at most the *)
(* iteration in progress when the switch was set completes, and after it   *)
(* the Index receives no further mutation.                                 *)
(***************************************************************************)
SwitchSeen == watcher_thread_kill_switch > 0 /\ wpc \in {"loop", "stopped"}
C13_CooperativeStop ==
    /\ [][SwitchSeen => (wpc' \in {"loop", "stopped"} /\ index' = index)]_vars
    /\ (watcher_thread_kill_switch > 0) ~> (wpc \in {"stopped", "dead"})

\* the switch was set in the middle of an iteration that applied an event,
\* and the loop has ended
C13_Witness ==
    /\ watcher_thread_kill_switch > 0
    /\ wpc = "stopped"
    /\ appliedNow # <<>>

(***************************************************************************)
(* C14: shutdown_watcher is idempotent.  A call made after the first, on   *)
(* the same catalog or on another catalog derived from the same root,      *)
(* leaves the switch set and changes nothing else: the watcher is in the   *)
(* state one call leaves it in, and the call does not raise.               *)
(***************************************************************************)
ShutdownCalled == calls' = calls + 1
C14_ShutdownIdempotent ==
    [][(ShutdownCalled /\ calls >= 1 /\ watcher_thread_kill_switch > 0) =>
          /\ watcher_thread_kill_switch' > 0
          /\ UNCHANGED <<wpc, index, exc, todo, changes, queued_changes, files>>
          /\ UNCHANGED <<fsVars, mainVars, catalogs>>]_vars

\* shutdown_watcher was called on the catalog from_directory returned and on
\* a catalog derived from it, and the watcher has stopped
C14_Witness ==
    /\ derived_calls >= 1 /\ calls > derived_calls
    /\ wpc = "stopped"

(***************************************************************************)
(* C15: a catalog made by new_variation refers to the very same Index,     *)
(* Reader Registry and kill switch as the catalog it is derived from, not  *)
(* to copies: a shutdown_watcher on any derived catalog lands on the kill  *)
(* switch the watcher thread tests, and the Index the watcher mutates is   *)
(* the Index of every catalog.                                             *)
(***************************************************************************)
C15_SharedHandles ==
    /\ \A c \in 1..Len(catalogs) : catalogs[c] = NewCatalog(Shared, Shared, Shared)
    /\ detached = 0
    /\ watcher_thread_kill_switch = calls

\* shutdown_watcher was called on a derived catalog only, and the watcher of
\* the root has stopped
C15_Witness ==
    /\ Len(catalogs) >= 2
    /\ calls >= 1 /\ derived_calls = calls
    /\ wpc = "stopped"

(***************************************************************************)
(* C16: override precedence.  A factory stored in the Index for a file of  *)
(* a MIME type that has a user-supplied reader is bound to that reader,    *)
(* and to the default reader only when the user supplied none; this holds  *)
(* for the files the scan found and for the files the watcher adds, so a   *)
(* readable file whose Added event the watcher has taken up is in the      *)
(* Index, bound by the same rule.                                          *)
(***************************************************************************)
MimeTypeOf(p) ==
    IF Suffixes(Name(p)) \in DOMAIN mimetypes_by_file_ext
    THEN mimetypes_by_file_ext[Suffixes(Name(p))]
    ELSE GuessType(Name(p))
ReaderByPrecedence(p) ==
    IF MimeTypeOf(p) \in DOMAIN user_readers
    THEN user_readers[MimeTypeOf(p)]
    ELSE DEFAULT_READERS_BY_MIMETYPE[MimeTypeOf(p)]
\* every factory in the Index is bound by the rule
BoundByPrecedence ==
    \A key \in DOMAIN index : \A n \in FileEntries(key) :
        index[key][n].reader = ReaderByPrecedence(Append(key, n))
\* _process_changes has reached the event e: it applied it or raised on it
TakenUp(e) ==
    \/ \E i \in 1..Len(appliedNow) : appliedNow[i] = e
    \/ wpc = "dead" /\ todo # <<>> /\ Head(todo) = e
C16_OverridePrecedence ==
    /\ BoundByPrecedence
    /\ \A p \in Paths :
          (TakenUp(Event("added", p)) /\ IsFile(p)
             /\ MimeTypeOf(p) \in DOMAIN user_readers
             /\ ParentParts(p) \in DOMAIN index) =>
          (Indexed(p) /\ index[ParentParts(p)][Name(p)].kind = "file"
             /\ index[ParentParts(p)][Name(p)].reader = ReaderByPrecedence(p))

(***************************************************************************)
(* C17: idempotence of lazy resolution.  Over any sequence of lookups on   *)
(* the CachingMap of the root, the factory of a key is invoked at most     *)
(* once and every lookup of the key returns the one object it made, also   *)
(* when the watcher removes other keys from the Node Map in between.       *)
(***************************************************************************)
C17_ResolvedOnce ==
    \A key \in LookupKeys : made[key] <= 1 /\ Cardinality(got[key]) <= 1

\* c.csv was looked up while a.csv was in the Node Map, the watcher removed
\* a.csv, and a later lookup of c.csv was answered from the cache
C17_Witness ==
    /\ hits["c.csv"] /\ made["c.csv"] = 1 /\ got["c.csv"] = {1}
    /\ "a.csv" \in keysWhen["c.csv"] /\ ~Indexed(<<"a.csv">>)

(***************************************************************************)
(* C19: accesses to a Node Map are mutually exclusive: the watcher does    *)
(* not insert into or remove from the Node Map of the root while a caller  *)
(* is in the middle of enumerating it.                                     *)
(***************************************************************************)
C19_NodeMapExclusive ==
    [][iterating => index'[RootKey] = index[RootKey]]_vars

(***************************************************************************)
(* C20: the watcher thread is started before the scanner reads any         *)
(* directory; the scan-complete signal is set only after the scanner's     *)
(* last write to the Index and before from_directory returns; one call of  *)
(* from_directory starts exactly one watcher thread.                       *)
(***************************************************************************)
Scanning == mpc \in {"walk_root", "walk_d"}
C20_StartOrder ==
    /\ mpc = "start" => (threads = 0 /\ wpc = "unstarted" /\ index = EmptyMap)
    /\ (Scanning \/ ScanOver) => (threads = 1 /\ wpc # "unstarted")
    /\ Scanning => ~initial_scan_complete
    /\ initial_scan_complete => mpc \in {"ret", "done"}
    /\ mpc = "done" => initial_scan_complete
    /\ threads <= 1

\* from_directory has returned a catalog with entries in its Index
C20_Witness ==
    /\ mpc = "done" /\ initial_scan_complete
    /\ threads = 1 /\ wpc = "loop"
    /\ Indexed(<<"c.csv">>) /\ Indexed(<<"d", "b.csv">>)

(***************************************************************************)
(* C21: applying a Modified(path) event for a file leaves the Index        *)
(* unchanged: no path-key and no Node Map entry is added, removed or       *)
(* replaced.                                                               *)
(***************************************************************************)
C21_ModifiedIsNoOp ==
    [][(/\ ApplyStep
        /\ Head(todo).kind = "modified"
        /\ ~IsDir(Head(todo).path))
          => index' = index]_vars

\* a.csv was rewritten after the scan had indexed it, the watcher applied the
\* Modified event and went on, and a.csv is in the Node Map as before
C21_Witness ==
    /\ mpc = "done" /\ wpc # "dead"
    /\ appliedNow # <<>>
    /\ appliedNow[Len(appliedNow)] = Event("modified", <<"a.csv">>)
    /\ Indexed(<<"a.csv">>)

(***************************************************************************)
(* C22: an error raised while applying one change event (a directory      *)
(* path, a Deleted event for an absent name, a failing Added resolution    *)
(* call) ends the watcher for good: the failing event leaves the Index as  *)
(* it was; from then on the watcher applies neither the rest of the batch  *)
(* nor the events of any later poll, which it never takes, and the Index   *)
(* never changes again; from_directory has not raised and does not raise,  *)
(* and a caller who looks a name up is answered from the frozen Index.     *)
(***************************************************************************)
\* the watcher thread has ended on an exception
WatcherDied == wpc = "dead"
C22_WatcherErrorIsFinal ==
    /\ [][(ApplyStep /\ ProcessChange(Head(todo), index).raised # "none")
            => /\ WatcherDied'
               /\ exc' = ProcessChange(Head(todo), index).raised
               /\ index' = index]_vars
    /\ [][WatcherDied
            => /\ WatcherDied'
               /\ UNCHANGED <<index, todo, appliedNow, files, changes,
                              queued_changes, exc>>]_vars
    /\ [](WatcherDied => (initial_scan_complete /\ mpc \in {"ret", "done"}))
    /\ [][(WatcherDied /\ answered' # answered)
            => \E key \in DOMAIN index[RootKey] :
                  answered' = answered \cup {key}]_vars

\* the watcher died with events of its batch left over, a.csv is gone from
\* the disk, which differs from what the watcher last saw, and a caller who
\* asked for a.csv after the watcher's death was given its object
C22_Witness ==
    /\ WatcherDied /\ exc # "none"
    /\ Len(todo) >= 2
    /\ ~IsFile(<<"a.csv">>) /\ Indexed(<<"a.csv">>)
    /\ Diff(files, Snapshot) # {}
    /\ "a.csv" \in answered

(***************************************************************************)
(* C18: two SerializableLock instances created or unpickled with the same  *)
(* token, both alive, wrap the same underlying lock, so that at most one   *)
(* thread holds the lock through instances of one token; instances with    *)
(* different tokens wrap different locks and never block each other.       *)
(***************************************************************************)
\* the part that concerns the token attribute an instance ends up with
SameAttributeSameLock ==
    \A i, j \in Alive :
        (instances[i].token = instances[j].token)
            <=> (instances[i].lock = instances[j].lock)
\* the token an instance was created or unpickled with: the argument, or the
\* uuid drawn when there was none
Given(i) ==
    IF instances[i].arg = "None" THEN instances[i].token ELSE instances[i].arg
C18_SameTokenSameLock ==
    /\ \A i, j \in Alive : Given(i) = Given(j) => instances[i].lock = instances[j].lock
    /\ \A i, j \in Alive : Given(i) # Given(j) => instances[i].lock # instances[j].lock
    /\ \A t, u \in Threads :
          (t # u /\ via[t] # 0 /\ via[u] # 0) => Given(via[t]) # Given(via[u])

====
